---- MODULE Spec2Model ----
(***************************************************************************)
(* A model of scripts/setup_payment_notifications.py: a command-line       *)
(* program that checks its argument count and prints four fixed code       *)
(* templates to standard output.                                           *)
(*                                                                         *)
(* Text.  A Python str is modelled as the sequence of its tokens, so that  *)
(* concatenation is \o and "is a substring of" is "is a contiguous         *)
(* subsequence of".  A token is a maximal run of [A-Za-z0-9_], a maximal   *)
(* run of other printable ASCII characters, or a single newline "\n".      *)
(* A character that cannot be written in a TLA+ string (a backtick or a    *)
(* non-ASCII character) is a token of its own, written as its code point   *)
(* (U+0060, U+2713, U+2717, U+2705, U+1F4E6).  Each line of a template     *)
(* below is one line of the source, in order.                              *)
(*                                                                         *)
(* Control.  pc is the source line of the statement of main() that runs    *)
(* next (310..344), 347 once main() has returned to the module level, and  *)
(* Exited once the process has terminated.                                 *)
(*                                                                         *)
(* Environment.  Standard output is a stream that accepts every character  *)
(* written to it; a write that fails (a closed pipe, an encoding without   *)
(* the characters of lines 316 and 338) is outside the model.  The clock   *)
(* and the log of system calls belong to the machine and outlive a         *)
(* process.                                                                *)
(***************************************************************************)
EXTENDS Integers, Sequences, FiniteSets, TLC

VARIABLES
    argv,          \* sys.argv of the running process
    pc,            \* source line of the next statement, or Exited
    project_path,  \* the local variable of main(), Unbound before line 314
    stdout,        \* the text written to standard output by this process
    stderr,        \* the text written to standard error by this process
    exitStatus,    \* Running, or the exit status of the process
    calls,         \* number of calls of each generator in this process
    clock,         \* the wall clock of the machine
    effects,       \* system calls other than writes to standard output
    history,       \* the processes that have terminated before this one
    result,        \* the value returned by the latest direct generator call
    returned       \* per generator, the set of values it has returned

vars == << argv, pc, project_path, stdout, stderr, exitStatus, calls, clock,
           effects, history, result, returned >>

-----------------------------------------------------------------------------
(* Bounds of the model. *)

MaxArgs == 2
MaxRuns == 2
MaxClock == 1
MaxCalls == 2

-----------------------------------------------------------------------------
(* Inputs. *)

ProgName == <<"scripts", "/", "setup_payment_notifications", ".", "py">>

\* Values of the path argument: the empty string, two paths that differ,
\* and a path with a trailing slash.
Paths ==
    { <<>>,
      <<"/", "tmp", "/", "a">>,
      <<"/", "tmp", "/", "b">>,
      <<"/", "tmp", "/", "a", "/">> }

\* Values of the arguments after the first.
Extras == { <<"--", "force">> }

RECURSIVE ExtraLists(_)
ExtraLists(n) ==
    IF n = 0 THEN { <<>> }
    ELSE LET shorter == ExtraLists(n - 1)
         IN  shorter \cup { Append(s, e) : s \in shorter, e \in Extras }

ArgLists ==
    { <<ProgName>> } \cup
    { <<ProgName, p>> \o x : p \in Paths, x \in ExtraLists(MaxArgs - 1) }

-----------------------------------------------------------------------------
(* Python built-ins used by the script. *)

\* s * n for a str s
StrMul(s, n) == [i \in 1..(n * Len(s)) |-> s[((i - 1) % Len(s)) + 1]]

\* the text that print(s) writes: s followed by a newline
print(s) == s \o <<"\n">>

\* pathlib.Path(s): an empty string is the current directory, trailing
\* slashes are dropped
RECURSIVE Path(_)
Path(s) ==
    IF s = <<>> THEN <<".">>
    ELSE IF Len(s) > 1 /\ s[Len(s)] = "/" THEN Path(SubSeq(s, 1, Len(s) - 1))
    ELSE s

\* sys.exit(n) with the sense of the status inverted
sys_exit_inverted(n) == IF n = 0 THEN 1 ELSE 0

\* the exit status of a process that ends in sys.exit(n) for an integer n
sys_exit(n) == n % 256

\* the text of the traceback of an uncaught IndexError
IndexErrorTraceback ==
    <<"Traceback", " (", "most", " ", "recent", " ", "call", " ", "last",
      "):", "\n", "IndexError", ": ", "list", " ", "index", " ", "out", " ",
      "of", " ", "range", "\n">>

\* a path constructor that checks the path on disk
PathIO_stat(s) == { <<"stat", s>> }

\* the system calls made by pathlib.Path(s): constructing a path is pure
PathIO(s) == {}

-----------------------------------------------------------------------------
(* The template bank. *)

generate_notification_types ==
    << "// ", "Notification", " ", "types", " ", "for", " ", "payment", " ", "events", "\n",
       "export", " ", "const", " ", "PAYMENT_NOTIFICATION_TYPES", " = {", "\n",
       "  ", "PAYMENT_SUCCESS", ": \"", "payment_success", "\",", "\n",
       "  ", "PAYMENT_FAILED", ": \"", "payment_failed", "\",", "\n",
       "  ", "SUBSCRIPTION_RENEWAL", ": \"", "subscription_renewal", "\",", "\n",
       "  ", "SUBSCRIPTION_CANCELLED", ": \"", "subscription_cancelled", "\",", "\n",
       "  ", "REFUND_ISSUED", ": \"", "refund_issued", "\",", "\n",
       "  ", "ACCOUNT_CHANGE", ": \"", "account_change", "\",", "\n",
       "} ", "as", " ", "const", ";", "\n",
       "\n",
       "export", " ", "const", " ", "PAYMENT_NOTIFICATION_ICONS", " = {", "\n",
       "  ", "payment_success", ": \"", "CheckCircle", "\",", "\n",
       "  ", "payment_failed", ": \"", "AlertCircle", "\",", "\n",
       "  ", "subscription_renewal", ": \"", "Clock", "\",", "\n",
       "  ", "subscription_cancelled", ": \"", "XCircle", "\",", "\n",
       "  ", "refund_issued", ": \"", "RefreshCw", "\",", "\n",
       "  ", "account_change", ": \"", "Settings", "\",", "\n",
       "} ", "as", " ", "const", ";", "\n",
       "\n",
       "export", " ", "const", " ", "PAYMENT_NOTIFICATION_COLORS", " = {", "\n",
       "  ", "payment_success", ": \"", "bg", "-", "green", "-", "50", " ", "border", "-", "green", "-", "200", "\",", "\n",
       "  ", "payment_failed", ": \"", "bg", "-", "red", "-", "50", " ", "border", "-", "red", "-", "200", "\",", "\n",
       "  ", "subscription_renewal", ": \"", "bg", "-", "blue", "-", "50", " ", "border", "-", "blue", "-", "200", "\",", "\n",
       "  ", "subscription_cancelled", ": \"", "bg", "-", "yellow", "-", "50", " ", "border", "-", "yellow", "-", "200", "\",", "\n",
       "  ", "refund_issued", ": \"", "bg", "-", "purple", "-", "50", " ", "border", "-", "purple", "-", "200", "\",", "\n",
       "  ", "account_change", ": \"", "bg", "-", "gray", "-", "50", " ", "border", "-", "gray", "-", "200", "\",", "\n",
       "} ", "as", " ", "const", ";", "\n" >>

\* the second table of the schema under a shorter name
generate_database_schema_renamed ==
    << "// ", "Add", " ", "to", " ", "drizzle", "/", "schema", ".", "ts", "\n",
       "\n",
       "import", " { ", "mysqlTable", ", ", "int", ", ", "text", ", ", "timestamp", ", ", "boolean", ", ", "varchar", ", ", "json", " } ", "from", " \"", "drizzle", "-", "orm", "/", "mysql", "-", "core", "\";", "\n",
       "import", " { ", "relations", " } ", "from", " \"", "drizzle", "-", "orm", "\";", "\n",
       "\n",
       "export", " ", "const", " ", "notifications", " = ", "mysqlTable", "(\"", "notifications", "\", {", "\n",
       "  ", "id", ": ", "int", "(\"", "id", "\").", "primaryKey", "().", "autoincrement", "(),", "\n",
       "  ", "adminId", ": ", "int", "(\"", "admin_id", "\").", "notNull", "(),", "\n",
       "  ", "type", ": ", "varchar", "(\"", "type", "\", { ", "length", ": ", "50", " }).", "notNull", "(), // ", "payment_success", ", ", "payment_failed", ", ", "etc", ".", "\n",
       "  ", "title", ": ", "text", "(\"", "title", "\").", "notNull", "(),", "\n",
       "  ", "body", ": ", "text", "(\"", "body", "\").", "notNull", "(),", "\n",
       "  ", "linkUrl", ": ", "text", "(\"", "link_url", "\"),", "\n",
       "  ", "metadata", ": ", "json", "(\"", "metadata", "\"), // ", "Payment", "-", "specific", " ", "data", "\n",
       "  ", "read", ": ", "boolean", "(\"", "read", "\").", "default", "(", "false", "),", "\n",
       "  ", "dismissed", ": ", "boolean", "(\"", "dismissed", "\").", "default", "(", "false", "),", "\n",
       "  ", "createdAt", ": ", "timestamp", "(\"", "created_at", "\").", "defaultNow", "(),", "\n",
       "  ", "updatedAt", ": ", "timestamp", "(\"", "updated_at", "\").", "defaultNow", "().", "onUpdateNow", "(),", "\n",
       "});", "\n",
       "\n",
       "export", " ", "const", " ", "adminNotificationPrefs", " = ", "mysqlTable", "(\"", "admin_notification_preferences", "\", {", "\n",
       "  ", "id", ": ", "int", "(\"", "id", "\").", "primaryKey", "().", "autoincrement", "(),", "\n",
       "  ", "adminId", ": ", "int", "(\"", "admin_id", "\").", "notNull", "().", "unique", "(),", "\n",
       "  ", "inAppPayments", ": ", "boolean", "(\"", "in_app_payments", "\").", "default", "(", "true", "),", "\n",
       "  ", "inAppSystemAlerts", ": ", "boolean", "(\"", "in_app_system_alerts", "\").", "default", "(", "true", "),", "\n",
       "  ", "inAppAccountChanges", ": ", "boolean", "(\"", "in_app_account_changes", "\").", "default", "(", "true", "),", "\n",
       "  ", "emailPayments", ": ", "boolean", "(\"", "email_payments", "\").", "default", "(", "false", "),", "\n",
       "  ", "emailSystemAlerts", ": ", "boolean", "(\"", "email_system_alerts", "\").", "default", "(", "false", "),", "\n",
       "  ", "emailAccountChanges", ": ", "boolean", "(\"", "email_account_changes", "\").", "default", "(", "false", "),", "\n",
       "  ", "emailDigestFrequency", ": ", "varchar", "(\"", "email_digest_frequency", "\", { ", "length", ": ", "20", " }).", "default", "(\"", "immediate", "\"), // ", "immediate", ", ", "daily", ", ", "weekly", "\n",
       "  ", "quietHoursEnabled", ": ", "boolean", "(\"", "quiet_hours_enabled", "\").", "default", "(", "false", "),", "\n",
       "  ", "quietHoursStart", ": ", "varchar", "(\"", "quiet_hours_start", "\", { ", "length", ": ", "5", " }), // ", "HH", ":", "MM", "\n",
       "  ", "quietHoursEnd", ": ", "varchar", "(\"", "quiet_hours_end", "\", { ", "length", ": ", "5", " }), // ", "HH", ":", "MM", "\n",
       "  ", "createdAt", ": ", "timestamp", "(\"", "created_at", "\").", "defaultNow", "(),", "\n",
       "  ", "updatedAt", ": ", "timestamp", "(\"", "updated_at", "\").", "defaultNow", "().", "onUpdateNow", "(),", "\n",
       "});", "\n",
       "\n",
       "export", " ", "const", " ", "notificationsRelations", " = ", "relations", "(", "notifications", ", ({ ", "one", " }) => ({", "\n",
       "  ", "admin", ": ", "one", "(", "users", ", {", "\n",
       "    ", "fields", ": [", "notifications", ".", "adminId", "],", "\n",
       "    ", "references", ": [", "users", ".", "id", "],", "\n",
       "  }),", "\n",
       "}));", "\n" >>

generate_database_schema ==
    << "// ", "Add", " ", "to", " ", "drizzle", "/", "schema", ".", "ts", "\n",
       "\n",
       "import", " { ", "mysqlTable", ", ", "int", ", ", "text", ", ", "timestamp", ", ", "boolean", ", ", "varchar", ", ", "json", " } ", "from", " \"", "drizzle", "-", "orm", "/", "mysql", "-", "core", "\";", "\n",
       "import", " { ", "relations", " } ", "from", " \"", "drizzle", "-", "orm", "\";", "\n",
       "\n",
       "export", " ", "const", " ", "notifications", " = ", "mysqlTable", "(\"", "notifications", "\", {", "\n",
       "  ", "id", ": ", "int", "(\"", "id", "\").", "primaryKey", "().", "autoincrement", "(),", "\n",
       "  ", "adminId", ": ", "int", "(\"", "admin_id", "\").", "notNull", "(),", "\n",
       "  ", "type", ": ", "varchar", "(\"", "type", "\", { ", "length", ": ", "50", " }).", "notNull", "(), // ", "payment_success", ", ", "payment_failed", ", ", "etc", ".", "\n",
       "  ", "title", ": ", "text", "(\"", "title", "\").", "notNull", "(),", "\n",
       "  ", "body", ": ", "text", "(\"", "body", "\").", "notNull", "(),", "\n",
       "  ", "linkUrl", ": ", "text", "(\"", "link_url", "\"),", "\n",
       "  ", "metadata", ": ", "json", "(\"", "metadata", "\"), // ", "Payment", "-", "specific", " ", "data", "\n",
       "  ", "read", ": ", "boolean", "(\"", "read", "\").", "default", "(", "false", "),", "\n",
       "  ", "dismissed", ": ", "boolean", "(\"", "dismissed", "\").", "default", "(", "false", "),", "\n",
       "  ", "createdAt", ": ", "timestamp", "(\"", "created_at", "\").", "defaultNow", "(),", "\n",
       "  ", "updatedAt", ": ", "timestamp", "(\"", "updated_at", "\").", "defaultNow", "().", "onUpdateNow", "(),", "\n",
       "});", "\n",
       "\n",
       "export", " ", "const", " ", "adminNotificationPreferences", " = ", "mysqlTable", "(\"", "admin_notification_preferences", "\", {", "\n",
       "  ", "id", ": ", "int", "(\"", "id", "\").", "primaryKey", "().", "autoincrement", "(),", "\n",
       "  ", "adminId", ": ", "int", "(\"", "admin_id", "\").", "notNull", "().", "unique", "(),", "\n",
       "  ", "inAppPayments", ": ", "boolean", "(\"", "in_app_payments", "\").", "default", "(", "true", "),", "\n",
       "  ", "inAppSystemAlerts", ": ", "boolean", "(\"", "in_app_system_alerts", "\").", "default", "(", "true", "),", "\n",
       "  ", "inAppAccountChanges", ": ", "boolean", "(\"", "in_app_account_changes", "\").", "default", "(", "true", "),", "\n",
       "  ", "emailPayments", ": ", "boolean", "(\"", "email_payments", "\").", "default", "(", "false", "),", "\n",
       "  ", "emailSystemAlerts", ": ", "boolean", "(\"", "email_system_alerts", "\").", "default", "(", "false", "),", "\n",
       "  ", "emailAccountChanges", ": ", "boolean", "(\"", "email_account_changes", "\").", "default", "(", "false", "),", "\n",
       "  ", "emailDigestFrequency", ": ", "varchar", "(\"", "email_digest_frequency", "\", { ", "length", ": ", "20", " }).", "default", "(\"", "immediate", "\"), // ", "immediate", ", ", "daily", ", ", "weekly", "\n",
       "  ", "quietHoursEnabled", ": ", "boolean", "(\"", "quiet_hours_enabled", "\").", "default", "(", "false", "),", "\n",
       "  ", "quietHoursStart", ": ", "varchar", "(\"", "quiet_hours_start", "\", { ", "length", ": ", "5", " }), // ", "HH", ":", "MM", "\n",
       "  ", "quietHoursEnd", ": ", "varchar", "(\"", "quiet_hours_end", "\", { ", "length", ": ", "5", " }), // ", "HH", ":", "MM", "\n",
       "  ", "createdAt", ": ", "timestamp", "(\"", "created_at", "\").", "defaultNow", "(),", "\n",
       "  ", "updatedAt", ": ", "timestamp", "(\"", "updated_at", "\").", "defaultNow", "().", "onUpdateNow", "(),", "\n",
       "});", "\n",
       "\n",
       "export", " ", "const", " ", "notificationsRelations", " = ", "relations", "(", "notifications", ", ({ ", "one", " }) => ({", "\n",
       "  ", "admin", ": ", "one", "(", "users", ", {", "\n",
       "    ", "fields", ": [", "notifications", ".", "adminId", "],", "\n",
       "    ", "references", ": [", "users", ".", "id", "],", "\n",
       "  }),", "\n",
       "}));", "\n" >>

generate_webhook_handler ==
    << "// ", "Add", " ", "to", " ", "server", "/_", "core", "/", "stripeWebhook", ".", "ts", "\n",
       "\n",
       "import", " ", "Stripe", " ", "from", " \"", "stripe", "\";", "\n",
       "import", " { ", "sendPaymentConfirmationNotification", ", ", "sendPaymentFailureNotification", " } ", "from", " \"../", "paymentNotifications", "\";", "\n",
       "\n",
       "const", " ", "stripe", " = ", "new", " ", "Stripe", "(", "process", ".", "env", ".", "STRIPE_SECRET_KEY", " || \"\");", "\n",
       "\n",
       "export", " ", "async", " ", "function", " ", "handleStripeWebhook", "(", "req", ": ", "any", ", ", "res", ": ", "any", ") {", "\n",
       "  ", "const", " ", "sig", " = ", "req", ".", "headers", "[\"", "stripe", "-", "signature", "\"];", "\n",
       "  ", "const", " ", "webhookSecret", " = ", "process", ".", "env", ".", "STRIPE_WEBHOOK_SECRET", ";", "\n",
       "\n",
       "  ", "if", " (!", "sig", " || !", "webhookSecret", ") {", "\n",
       "    ", "return", " ", "res", ".", "status", "(", "400", ").", "json", "({ ", "error", ": \"", "Missing", " ", "signature", " ", "or", " ", "webhook", " ", "secret", "\" });", "\n",
       "  }", "\n",
       "\n",
       "  ", "let", " ", "event", ": ", "Stripe", ".", "Event", ";", "\n",
       "\n",
       "  ", "try", " {", "\n",
       "    ", "event", " = ", "stripe", ".", "webhooks", ".", "constructEvent", "(", "req", ".", "body", ", ", "sig", ", ", "webhookSecret", ");", "\n",
       "  } ", "catch", " (", "error", ": ", "any", ") {", "\n",
       "    ", "console", ".", "error", "(\"", "Webhook", " ", "signature", " ", "verification", " ", "failed", ":\", ", "error", ".", "message", ");", "\n",
       "    ", "return", " ", "res", ".", "status", "(", "400", ").", "json", "({ ", "error", ": \"", "Invalid", " ", "signature", "\" });", "\n",
       "  }", "\n",
       "\n",
       "  // ", "Handle", " ", "test", " ", "events", "\n",
       "  ", "if", " (", "event", ".", "id", ".", "startsWith", "(\"", "evt_test_", "\")) {", "\n",
       "    ", "console", ".", "log", "(\"[", "Webhook", "] ", "Test", " ", "event", " ", "detected", ", ", "returning", " ", "verification", " ", "response", "\");", "\n",
       "    ", "return", " ", "res", ".", "json", "({ ", "verified", ": ", "true", " });", "\n",
       "  }", "\n",
       "\n",
       "  ", "try", " {", "\n",
       "    ", "switch", " (", "event", ".", "type", ") {", "\n",
       "      ", "case", " \"", "checkout", ".", "session", ".", "completed", "\":", "\n",
       "        ", "await", " ", "handleCheckoutSessionCompleted", "(", "event", ".", "data", ".", "object", " ", "as", " ", "Stripe", ".", "Checkout", ".", "Session", ");", "\n",
       "        ", "break", ";", "\n",
       "\n",
       "      ", "case", " \"", "payment_intent", ".", "succeeded", "\":", "\n",
       "        ", "await", " ", "handlePaymentIntentSucceeded", "(", "event", ".", "data", ".", "object", " ", "as", " ", "Stripe", ".", "PaymentIntent", ");", "\n",
       "        ", "break", ";", "\n",
       "\n",
       "      ", "case", " \"", "payment_intent", ".", "payment_failed", "\":", "\n",
       "        ", "await", " ", "handlePaymentIntentFailed", "(", "event", ".", "data", ".", "object", " ", "as", " ", "Stripe", ".", "PaymentIntent", ");", "\n",
       "        ", "break", ";", "\n",
       "\n",
       "      ", "case", " \"", "customer", ".", "subscription", ".", "created", "\":", "\n",
       "        ", "console", ".", "log", "(\"", "Subscription", " ", "created", ":\", ", "event", ".", "data", ".", "object", ");", "\n",
       "        ", "break", ";", "\n",
       "\n",
       "      ", "case", " \"", "customer", ".", "subscription", ".", "updated", "\":", "\n",
       "        ", "console", ".", "log", "(\"", "Subscription", " ", "updated", ":\", ", "event", ".", "data", ".", "object", ");", "\n",
       "        ", "break", ";", "\n",
       "\n",
       "      ", "case", " \"", "customer", ".", "subscription", ".", "deleted", "\":", "\n",
       "        ", "console", ".", "log", "(\"", "Subscription", " ", "deleted", ":\", ", "event", ".", "data", ".", "object", ");", "\n",
       "        ", "break", ";", "\n",
       "\n",
       "      ", "case", " \"", "charge", ".", "refunded", "\":", "\n",
       "        ", "console", ".", "log", "(\"", "Charge", " ", "refunded", ":\", ", "event", ".", "data", ".", "object", ");", "\n",
       "        ", "break", ";", "\n",
       "\n",
       "      ", "default", ":", "\n",
       "        ", "console", ".", "log", "(\"", "Unhandled", " ", "event", " ", "type", ":\", ", "event", ".", "type", ");", "\n",
       "    }", "\n",
       "\n",
       "    ", "res", ".", "json", "({ ", "received", ": ", "true", " });", "\n",
       "  } ", "catch", " (", "error", ") {", "\n",
       "    ", "console", ".", "error", "(\"", "Error", " ", "processing", " ", "webhook", ":\", ", "error", ");", "\n",
       "    ", "res", ".", "status", "(", "500", ").", "json", "({ ", "error", ": \"", "Webhook", " ", "processing", " ", "failed", "\" });", "\n",
       "  }", "\n",
       "}", "\n",
       "\n",
       "async", " ", "function", " ", "handleCheckoutSessionCompleted", "(", "session", ": ", "Stripe", ".", "Checkout", ".", "Session", ") {", "\n",
       "  ", "const", " ", "metadata", " = ", "session", ".", "metadata", " || {};", "\n",
       "  ", "\n",
       "  ", "await", " ", "sendPaymentConfirmationNotification", "({", "\n",
       "    ", "amount", ": ", "session", ".", "amount_total", " || ", "0", ",", "\n",
       "    ", "currency", ": ", "session", ".", "currency", " || \"", "usd", "\",", "\n",
       "    ", "tier", ": ", "metadata", ".", "tier", " || \"", "school", "\",", "\n",
       "    ", "billingInterval", ": ", "metadata", ".", "billingInterval", " || \"", "annual", "\",", "\n",
       "    ", "customerEmail", ": ", "session", ".", "customer_email", " || \"\",", "\n",
       "    ", "customerName", ": ", "metadata", ".", "customerName", " || \"\",", "\n",
       "    ", "sessionId", ": ", "session", ".", "id", ",", "\n",
       "  });", "\n",
       "}", "\n",
       "\n",
       "async", " ", "function", " ", "handlePaymentIntentSucceeded", "(", "intent", ": ", "Stripe", ".", "PaymentIntent", ") {", "\n",
       "  ", "const", " ", "metadata", " = ", "intent", ".", "metadata", " || {};", "\n",
       "  ", "\n",
       "  ", "await", " ", "sendPaymentConfirmationNotification", "({", "\n",
       "    ", "amount", ": ", "intent", ".", "amount", ",", "\n",
       "    ", "currency", ": ", "intent", ".", "currency", ",", "\n",
       "    ", "tier", ": ", "metadata", ".", "tier", " || \"", "school", "\",", "\n",
       "    ", "billingInterval", ": ", "metadata", ".", "billingInterval", " || \"", "annual", "\",", "\n",
       "    ", "customerEmail", ": ", "metadata", ".", "customerEmail", " || \"\",", "\n",
       "    ", "customerName", ": ", "metadata", ".", "customerName", " || \"\",", "\n",
       "    ", "sessionId", ": ", "intent", ".", "id", ",", "\n",
       "  });", "\n",
       "}", "\n",
       "\n",
       "async", " ", "function", " ", "handlePaymentIntentFailed", "(", "intent", ": ", "Stripe", ".", "PaymentIntent", ") {", "\n",
       "  ", "const", " ", "metadata", " = ", "intent", ".", "metadata", " || {};", "\n",
       "  ", "\n",
       "  ", "await", " ", "sendPaymentFailureNotification", "({", "\n",
       "    ", "amount", ": ", "intent", ".", "amount", ",", "\n",
       "    ", "currency", ": ", "intent", ".", "currency", ",", "\n",
       "    ", "tier", ": ", "metadata", ".", "tier", " || \"", "school", "\",", "\n",
       "    ", "billingInterval", ": ", "metadata", ".", "billingInterval", " || \"", "annual", "\",", "\n",
       "    ", "customerEmail", ": ", "metadata", ".", "customerEmail", " || \"\",", "\n",
       "    ", "customerName", ": ", "metadata", ".", "customerName", " || \"\",", "\n",
       "    ", "failureReason", ": ", "intent", ".", "last_payment_error", "?.", "message", " || \"", "Unknown", " ", "error", "\",", "\n",
       "    ", "sessionId", ": ", "intent", ".", "id", ",", "\n",
       "  });", "\n",
       "}", "\n" >>

generate_notification_helpers ==
    << "// ", "Add", " ", "to", " ", "server", "/", "paymentNotifications", ".", "ts", "\n",
       "\n",
       "import", " { ", "getDb", " } ", "from", " \"./", "db", "\";", "\n",
       "import", " { ", "createAdminNotification", ", ", "getAdminNotificationPreferences", " } ", "from", " \"./", "notifications", "\";", "\n",
       "\n",
       "interface", " ", "PaymentData", " {", "\n",
       "  ", "amount", ": ", "number", ";", "\n",
       "  ", "currency", ": ", "string", ";", "\n",
       "  ", "tier", ": \"", "school", "\" | \"", "district", "\";", "\n",
       "  ", "billingInterval", ": \"", "month", "\" | \"", "year", "\";", "\n",
       "  ", "customerEmail", ": ", "string", ";", "\n",
       "  ", "customerName", ": ", "string", ";", "\n",
       "  ", "sessionId", "?: ", "string", ";", "\n",
       "  ", "failureReason", "?: ", "string", ";", "\n",
       "  ", "renewalDate", "?: ", "Date", ";", "\n",
       "  ", "subscriptionId", "?: ", "string", ";", "\n",
       "  ", "cancellationReason", "?: ", "string", ";", "\n",
       "  ", "refundReason", "?: ", "string", ";", "\n",
       "  ", "chargeId", "?: ", "string", ";", "\n",
       "  ", "refundId", "?: ", "string", ";", "\n",
       "  ", "paymentMethodType", "?: ", "string", ";", "\n",
       "  ", "last4", "?: ", "string", ";", "\n",
       "}", "\n",
       "\n",
       "export", " ", "async", " ", "function", " ", "sendPaymentConfirmationNotification", "(", "data", ": ", "PaymentData", ") {", "\n",
       "  ", "try", " {", "\n",
       "    ", "const", " ", "tierLabel", " = ", "data", ".", "tier", " === \"", "school", "\" ? \"", "School", " ", "License", "\" : \"", "District", " ", "License", "\";", "\n",
       "    ", "const", " ", "intervalLabel", " = ", "data", ".", "billingInterval", " === \"", "month", "\" ? \"", "Monthly", "\" : \"", "Annual", "\";", "\n",
       "    ", "const", " ", "amount", " = (", "data", ".", "amount", " / ", "100", ").", "toFixed", "(", "2", ");", "\n",
       "\n",
       "    ", "const", " ", "title", " = \"", "Payment", " ", "Confirmed", " ", "U+2713", "\";", "\n",
       "    ", "const", " ", "body", " = ", "U+0060", "${", "intervalLabel", "} ${", "tierLabel", "} ", "subscription", " ", "activated", ". ", "Amount", ": $${", "amount", "} ${", "data", ".", "currency", ".", "toUpperCase", "()}. ", "Customer", ": ${", "data", ".", "customerEmail", "}", "U+0060", ";", "\n",
       "\n",
       "    ", "const", " ", "metadata", " = {", "\n",
       "      ", "paymentType", ": \"", "subscription", "\",", "\n",
       "      ", "tier", ": ", "data", ".", "tier", ",", "\n",
       "      ", "amount", ": ", "data", ".", "amount", ",", "\n",
       "      ", "currency", ": ", "data", ".", "currency", ",", "\n",
       "      ", "billingInterval", ": ", "data", ".", "billingInterval", ",", "\n",
       "      ", "customerEmail", ": ", "data", ".", "customerEmail", ",", "\n",
       "      ", "customerName", ": ", "data", ".", "customerName", ",", "\n",
       "      ", "sessionId", ": ", "data", ".", "sessionId", ",", "\n",
       "      ", "timestamp", ": ", "new", " ", "Date", "().", "toISOString", "(),", "\n",
       "    };", "\n",
       "\n",
       "    ", "const", " ", "linkUrl", " = ", "U+0060", "/", "admin", "/", "payments", "?", "session", "=${", "data", ".", "sessionId", "}", "U+0060", ";", "\n",
       "\n",
       "    ", "await", " ", "createAdminNotification", "({", "\n",
       "      ", "type", ": \"", "payment_success", "\",", "\n",
       "      ", "title", ",", "\n",
       "      ", "body", ",", "\n",
       "      ", "linkUrl", ",", "\n",
       "      ", "metadata", ",", "\n",
       "    });", "\n",
       "\n",
       "    ", "console", ".", "log", "(\"", "Payment", " ", "confirmation", " ", "notification", " ", "sent", "\");", "\n",
       "  } ", "catch", " (", "error", ") {", "\n",
       "    ", "console", ".", "error", "(\"", "Failed", " ", "to", " ", "send", " ", "payment", " ", "confirmation", " ", "notification", ":\", ", "error", ");", "\n",
       "  }", "\n",
       "}", "\n",
       "\n",
       "export", " ", "async", " ", "function", " ", "sendPaymentFailureNotification", "(", "data", ": ", "PaymentData", ") {", "\n",
       "  ", "try", " {", "\n",
       "    ", "const", " ", "tierLabel", " = ", "data", ".", "tier", " === \"", "school", "\" ? \"", "School", " ", "License", "\" : \"", "District", " ", "License", "\";", "\n",
       "    ", "const", " ", "intervalLabel", " = ", "data", ".", "billingInterval", " === \"", "month", "\" ? \"", "Monthly", "\" : \"", "Annual", "\";", "\n",
       "    ", "const", " ", "amount", " = (", "data", ".", "amount", " / ", "100", ").", "toFixed", "(", "2", ");", "\n",
       "\n",
       "    ", "const", " ", "title", " = \"", "Payment", " ", "Failed", " ", "U+2717", "\";", "\n",
       "    ", "const", " ", "body", " = ", "U+0060", "${", "intervalLabel", "} ${", "tierLabel", "} ", "subscription", " ", "failed", ". ", "Amount", ": $${", "amount", "} ${", "data", ".", "currency", ".", "toUpperCase", "()}. ", "Reason", ": ${", "data", ".", "failureReason", "}. ", "Customer", ": ${", "data", ".", "customerEmail", "}", "U+0060", ";", "\n",
       "\n",
       "    ", "const", " ", "metadata", " = {", "\n",
       "      ", "paymentType", ": \"", "subscription", "\",", "\n",
       "      ", "tier", ": ", "data", ".", "tier", ",", "\n",
       "      ", "amount", ": ", "data", ".", "amount", ",", "\n",
       "      ", "currency", ": ", "data", ".", "currency", ",", "\n",
       "      ", "billingInterval", ": ", "data", ".", "billingInterval", ",", "\n",
       "      ", "customerEmail", ": ", "data", ".", "customerEmail", ",", "\n",
       "      ", "customerName", ": ", "data", ".", "customerName", ",", "\n",
       "      ", "failureReason", ": ", "data", ".", "failureReason", ",", "\n",
       "      ", "sessionId", ": ", "data", ".", "sessionId", ",", "\n",
       "      ", "timestamp", ": ", "new", " ", "Date", "().", "toISOString", "(),", "\n",
       "    };", "\n",
       "\n",
       "    ", "const", " ", "linkUrl", " = ", "U+0060", "/", "admin", "/", "payments", "?", "session", "=${", "data", ".", "sessionId", "}&", "status", "=", "failed", "U+0060", ";", "\n",
       "\n",
       "    ", "await", " ", "createAdminNotification", "({", "\n",
       "      ", "type", ": \"", "payment_failed", "\",", "\n",
       "      ", "title", ",", "\n",
       "      ", "body", ",", "\n",
       "      ", "linkUrl", ",", "\n",
       "      ", "metadata", ",", "\n",
       "    });", "\n",
       "\n",
       "    ", "console", ".", "log", "(\"", "Payment", " ", "failure", " ", "notification", " ", "sent", "\");", "\n",
       "  } ", "catch", " (", "error", ") {", "\n",
       "    ", "console", ".", "error", "(\"", "Failed", " ", "to", " ", "send", " ", "payment", " ", "failure", " ", "notification", ":\", ", "error", ");", "\n",
       "  }", "\n",
       "}", "\n" >>

Generators ==
    { "generate_notification_types", "generate_database_schema",
      "generate_webhook_handler", "generate_notification_helpers" }

\* every template starts with a comment holding the time of generation
Call_stamped(fn) ==
    <<"// ", "generated", " ", "at", " ", ToString(clock), "\n">> \o
    (CASE fn = "generate_notification_types" -> generate_notification_types
       [] fn = "generate_database_schema" -> generate_database_schema
       [] fn = "generate_webhook_handler" -> generate_webhook_handler
       [] fn = "generate_notification_helpers" -> generate_notification_helpers)

\* every template ends with a comment holding a per-generator call counter
Call_counting(fn) ==
    (CASE fn = "generate_notification_types" -> generate_notification_types
       [] fn = "generate_database_schema" -> generate_database_schema
       [] fn = "generate_webhook_handler" -> generate_webhook_handler
       [] fn = "generate_notification_helpers" -> generate_notification_helpers)
    \o <<"// ", "call", " ", ToString(calls[fn] + 1), "\n">>

\* the schema section calls the webhook generator
Call_copied(fn) ==
    CASE fn = "generate_notification_types" -> generate_notification_types
      [] fn = "generate_database_schema" -> generate_webhook_handler
      [] fn = "generate_webhook_handler" -> generate_webhook_handler
      [] fn = "generate_notification_helpers" -> generate_notification_helpers

\* the value of the call fn()
Call(fn) ==
    CASE fn = "generate_notification_types" -> generate_notification_types
      [] fn = "generate_database_schema" -> generate_database_schema
      [] fn = "generate_webhook_handler" -> generate_webhook_handler
      [] fn = "generate_notification_helpers" -> generate_notification_helpers

-----------------------------------------------------------------------------
(* main(): the string literals, the statements and the control flow. *)

usage_line == <<"Usage", ": ", "python", " ", "setup_payment_notifications", ".", "py", " <", "project", "-", "path", ">">>
\* the title names the project path
title_line_with_path ==
    <<"U+1F4E6", " ", "Payment", " ", "Notification", " ", "System", " ", "Setup">> \o <<" ", "for", " ">> \o project_path

title_line == <<"U+1F4E6", " ", "Payment", " ", "Notification", " ", "System", " ", "Setup">>
snippets_line == <<"Generated", " ", "code", " ", "snippets", ":">>
header_types == <<"1", ". ", "Notification", " ", "Types", " (", "shared", "/", "notifications", ".", "ts", ")">>
header_schema == <<"2", ". ", "Database", " ", "Schema", " (", "drizzle", "/", "schema", ".", "ts", ")">>
header_webhook == <<"3", ". ", "Webhook", " ", "Handler", " (", "server", "/_", "core", "/", "stripeWebhook", ".", "ts", ")">>
header_helpers == <<"4", ". ", "Notification", " ", "Helpers", " (", "server", "/", "paymentNotifications", ".", "ts", ")">>
complete_line == <<"U+2705", " ", "Code", " ", "generation", " ", "complete", "!">>
next_steps_line == <<"Next", " ", "steps", ":">>
step1_line == <<"1", ". ", "Copy", " ", "the", " ", "generated", " ", "code", " ", "snippets", " ", "into", " ", "your", " ", "project">>
step2_line == <<"2", ". ", "Run", " '", "pnpm", " ", "db", ":", "push", "' ", "to", " ", "apply", " ", "database", " ", "migrations">>
step3_line == <<"3", ". ", "Register", " ", "the", " ", "webhook", " ", "endpoint", " ", "in", " ", "your", " ", "server">>
step4_line == <<"4", ". ", "Test", " ", "with", " ", "Stripe", " ", "CLI", ": ", "stripe", " ", "listen", " --", "forward", "-", "to", " ", "localhost", ":", "3000", "/", "api", "/", "stripe", "/", "webhook">>

RuleWidth == 50
UsageExitStatus == 1
Entry == 310
Returned == 347
Imported == 346
Exited == 0
Running == -1
Unbound == <<"<unbound>">>

\* an empty path argument counts as missing
MissingPath_or_empty == Len(argv) < 2 \/ argv[2] = <<>>

\* exactly one argument is required
MissingPath_exact == Len(argv) # 2

\* the argument count is compared with 1
MissingPath_lt1 == Len(argv) < 1

\* len(sys.argv) < 2
MissingPath == Len(argv) < 2

\* the statement at source line l
Stmt(l) ==
    CASE l = 310 -> [op |-> "if"]
      [] l = 311 -> [op |-> "print", text |-> usage_line]
      [] l = 312 -> [op |-> "sys_exit", status |-> UsageExitStatus]
      [] l = 314 -> [op |-> "assign_path"]
      [] l = 316 -> [op |-> "print", text |-> title_line]
      [] l = 317 -> [op |-> "print", text |-> StrMul(<<"=">>, RuleWidth)]
      [] l = 318 -> [op |-> "print", text |-> <<>>]
      [] l = 319 -> [op |-> "print", text |-> snippets_line]
      [] l = 320 -> [op |-> "print", text |-> <<>>]
      [] l = 321 -> [op |-> "print", text |-> header_types]
      [] l = 322 -> [op |-> "print", text |-> StrMul(<<"-">>, RuleWidth)]
      [] l = 323 -> [op |-> "print_call", fn |-> "generate_notification_types"]
      [] l = 324 -> [op |-> "print", text |-> <<>>]
      [] l = 325 -> [op |-> "print", text |-> header_schema]
      [] l = 326 -> [op |-> "print", text |-> StrMul(<<"-">>, RuleWidth)]
      [] l = 327 -> [op |-> "print_call", fn |-> "generate_database_schema"]
      [] l = 328 -> [op |-> "print", text |-> <<>>]
      [] l = 329 -> [op |-> "print", text |-> header_webhook]
      [] l = 330 -> [op |-> "print", text |-> StrMul(<<"-">>, RuleWidth)]
      [] l = 331 -> [op |-> "print_call", fn |-> "generate_webhook_handler"]
      [] l = 332 -> [op |-> "print", text |-> <<>>]
      [] l = 333 -> [op |-> "print", text |-> header_helpers]
      [] l = 334 -> [op |-> "print", text |-> StrMul(<<"-">>, RuleWidth)]
      [] l = 335 -> [op |-> "print_call", fn |-> "generate_notification_helpers"]
      [] l = 336 -> [op |-> "print", text |-> <<>>]
      [] l = 337 -> [op |-> "print", text |-> StrMul(<<"=">>, RuleWidth)]
      [] l = 338 -> [op |-> "print", text |-> complete_line]
      [] l = 339 -> [op |-> "print", text |-> <<>>]
      [] l = 340 -> [op |-> "print", text |-> next_steps_line]
      [] l = 341 -> [op |-> "print", text |-> step1_line]
      [] l = 342 -> [op |-> "print", text |-> step2_line]
      [] l = 343 -> [op |-> "print", text |-> step3_line]
      [] l = 344 -> [op |-> "print", text |-> step4_line]

StmtLines == (310..312) \cup {314} \cup (316..344)

\* the statement that follows the statement at line l when it falls through
Succ(l) ==
    CASE l = 312 -> Exited
      [] l = 314 -> 316
      [] l = 344 -> Returned
      [] OTHER -> l + 1

NoCalls == [fn \in Generators |-> 0]
NoneReturned == [fn \in Generators |-> {}]

-----------------------------------------------------------------------------
(* The process. *)

Init ==
    /\ argv \in ArgLists
    /\ pc = Entry
    /\ project_path = Unbound
    /\ stdout = <<>>
    /\ stderr = <<>>
    /\ exitStatus = Running
    /\ calls = NoCalls
    /\ clock = 0
    /\ effects = {}
    /\ history = <<>>
    /\ result = <<>>
    /\ returned = NoneReturned

\* line 310: if len(sys.argv) < 2
IfMissingPath ==
    /\ pc \in StmtLines
    /\ Stmt(pc).op = "if"
    /\ pc' = IF MissingPath THEN Succ(pc) ELSE 314
    /\ UNCHANGED << argv, project_path, stdout, stderr, exitStatus, calls, clock,
                    effects, history, result, returned >>

\* line 312: sys.exit(1)
SysExit ==
    /\ pc \in StmtLines
    /\ Stmt(pc).op = "sys_exit"
    /\ exitStatus' = sys_exit(Stmt(pc).status)
    /\ pc' = Succ(pc)
    /\ UNCHANGED << argv, project_path, stdout, stderr, calls, clock, effects,
                    history, result, returned >>

\* line 314: project_path = Path(sys.argv[1]); sys.argv[1] raises IndexError
\* when the list has one element, and main() catches nothing
AssignProjectPath ==
    /\ pc \in StmtLines
    /\ Stmt(pc).op = "assign_path"
    /\ IF Len(argv) >= 2
       THEN /\ project_path' = Path(argv[2])
            /\ effects' = effects \cup PathIO(argv[2])
            /\ pc' = Succ(pc)
            /\ UNCHANGED << stderr, exitStatus >>
       ELSE /\ stderr' = stderr \o IndexErrorTraceback
            /\ exitStatus' = 1
            /\ pc' = Exited
            /\ UNCHANGED << project_path, effects >>
    /\ UNCHANGED << argv, stdout, calls, clock, history, result, returned >>

\* print("...") and print()
PrintLiteral ==
    /\ pc \in StmtLines
    /\ Stmt(pc).op = "print"
    /\ stdout' = stdout \o print(Stmt(pc).text)
    /\ pc' = Succ(pc)
    /\ UNCHANGED << argv, project_path, stderr, exitStatus, calls, clock, effects,
                    history, result, returned >>

\* print(generate_...())
PrintGenerated ==
    /\ pc \in StmtLines
    /\ Stmt(pc).op = "print_call"
    /\ LET fn == Stmt(pc).fn
       IN  /\ stdout' = stdout \o print(Call(fn))
           /\ calls' = [calls EXCEPT ![fn] = @ + 1]
    /\ pc' = Succ(pc)
    /\ UNCHANGED << argv, project_path, stderr, exitStatus, clock, effects, history,
                    result, returned >>

\* lines 346-347: main() has returned and the interpreter exits normally
InterpreterExit ==
    /\ pc = Returned
    /\ exitStatus' = 0
    /\ pc' = Exited
    /\ UNCHANGED << argv, project_path, stdout, stderr, calls, clock, effects,
                    history, result, returned >>

\* the record of the process that has just terminated
ThisRun == [argv |-> argv, stdout |-> stdout, stderr |-> stderr,
            exitStatus |-> exitStatus, calls |-> calls]

\* the script is started again, in a new process, on the same machine
Invoke ==
    /\ pc = Exited
    /\ Len(history) < MaxRuns - 1
    /\ history' = Append(history, ThisRun)
    /\ argv' \in ArgLists
    /\ pc' = Entry
    /\ project_path' = Unbound
    /\ stdout' = <<>>
    /\ stderr' = <<>>
    /\ exitStatus' = Running
    /\ calls' = NoCalls
    /\ UNCHANGED << clock, effects, result, returned >>

\* time passes
Tick ==
    /\ clock < MaxClock
    /\ clock' = clock + 1
    /\ UNCHANGED << argv, pc, project_path, stdout, stderr, exitStatus, calls,
                    effects, history, result, returned >>

Step ==
    \/ IfMissingPath
    \/ SysExit
    \/ AssignProjectPath
    \/ PrintLiteral
    \/ PrintGenerated
    \/ InterpreterExit

Next ==
    \/ Step
    \/ Invoke
    \/ Tick

Spec == Init /\ [][Next]_vars

\* one process, which is scheduled until it terminates
NextRun ==
    \/ Step
    \/ Tick

FairSpec == Init /\ [][NextRun]_vars /\ WF_vars(Step)

-----------------------------------------------------------------------------
(* The module imported by another program: the guard of line 346 is false, *)
(* main() does not run, and the importer calls the generators directly, in *)
(* any order and any number of times.                                      *)

InitGen ==
    /\ argv \in ArgLists
    /\ pc = Imported
    /\ project_path = Unbound
    /\ stdout = <<>>
    /\ stderr = <<>>
    /\ exitStatus = Running
    /\ calls = NoCalls
    /\ clock = 0
    /\ effects = {}
    /\ history = <<>>
    /\ result = <<>>
    /\ returned = NoneReturned

\* the importer evaluates fn()
CallGenerator(fn) ==
    /\ pc = Imported
    /\ calls[fn] < MaxCalls
    /\ result' = Call(fn)
    /\ returned' = [returned EXCEPT ![fn] = @ \cup {Call(fn)}]
    /\ calls' = [calls EXCEPT ![fn] = @ + 1]
    /\ UNCHANGED << argv, pc, project_path, stdout, stderr, exitStatus,
                    clock, effects, history >>

\* the importer assigns sys.argv
SetArgv ==
    /\ pc = Imported
    /\ argv' \in ArgLists \ {argv}
    /\ UNCHANGED << pc, project_path, stdout, stderr, exitStatus, calls,
                    clock, effects, history, result, returned >>

NextGen ==
    \/ \E fn \in Generators : CallGenerator(fn)
    \/ SetArgv
    \/ Tick

SpecGen == InitGen /\ [][NextGen]_vars

-----------------------------------------------------------------------------
(* Operators on text used to state the properties. *)

\* sub occurs in s at position i
OccursAt(s, sub, i) ==
    /\ i >= 1
    /\ i + Len(sub) - 1 <= Len(s)
    /\ \A k \in 1..Len(sub) : s[i + k - 1] = sub[k]

\* sub is a substring of s
Contains(s, sub) == \E i \in 1..(Len(s) + 1) : OccursAt(s, sub, i)

\* the least position from which sub occurs in s at or after from, 0 if none
Find(s, sub, from) ==
    LET at == { i \in from..Len(s) : OccursAt(s, sub, i) }
    IN  IF at = {} THEN 0 ELSE CHOOSE i \in at : \A j \in at : i <= j

\* the texts of subs occur in s one after the other, at or after from
RECURSIVE InOrderFrom(_, _, _)
InOrderFrom(s, subs, from) ==
    IF subs = <<>> THEN TRUE
    ELSE LET i == Find(s, Head(subs), from)
         IN  /\ i # 0
             /\ InOrderFrom(s, Tail(subs), i + Len(Head(subs)))

\* the lines of s that end in a newline
Lines(s) ==
    LET ends == { i \in 1..Len(s) : s[i] = "\n" }
        starts == {1} \cup { i + 1 : i \in ends }
    IN  { SubSeq(s, a, b - 1) :
            <<a, b>> \in { x \in starts \X ends :
                             /\ x[1] <= x[2]
                             /\ \A k \in x[1]..(x[2] - 1) : s[k] # "\n" } }

\* the processes that have terminated, the running one included once it has
AllRuns == IF pc = Exited THEN Append(history, ThisRun) ELSE history

SameResult(r1, r2) ==
    /\ r1.stdout = r2.stdout
    /\ r1.stderr = r2.stderr
    /\ r1.exitStatus = r2.exitStatus

ScriptName == <<"setup_payment_notifications", ".", "py">>

SectionTitles ==
    << <<"Notification", " ", "Types">>,
       <<"Database", " ", "Schema">>,
       <<"Webhook", " ", "Handler">>,
       <<"Notification", " ", "Helpers">> >>

CompletionMessage == <<"Code", " ", "generation", " ", "complete">>

-----------------------------------------------------------------------------
(* The properties. *)

\* C1: a process started with the program name alone prints a usage line
\* that contains the name of the script to standard output, and exits with
\* status 1.
C1_UsageAndStatus1 ==
    (pc = Exited /\ Len(argv) = 1) =>
        /\ exitStatus = 1
        /\ \E line \in Lines(stdout) :
              /\ Contains(line, <<"Usage">>)
              /\ Contains(line, ScriptName)

C1_Witness ==
    /\ pc = Exited
    /\ Len(argv) = 1
    /\ stdout # <<>>
    /\ exitStatus = 1

\* C2: a process started with exactly one argument, whatever its value (the
\* empty string included), exits with status 0 and its output holds the four
\* section headers in the order notification types, database schema, webhook
\* handler, notification helpers.
C2_OneArgumentSucceeds ==
    (pc = Exited /\ Len(argv) = 2) =>
        /\ exitStatus = 0
        /\ InOrderFrom(stdout, SectionTitles, 1)

C2_Witness ==
    /\ pc = Exited
    /\ argv = <<ProgName, <<>>>>
    /\ exitStatus = 0
    /\ InOrderFrom(stdout, SectionTitles, 1)

\* C3: two processes whose argument lists differ only in the value of the
\* first argument write the same text and exit with the same status.
C3_PathIndependent ==
    \A i, j \in 1..Len(AllRuns) :
        LET r1 == AllRuns[i]
            r2 == AllRuns[j]
        IN  ( /\ Len(r1.argv) >= 2
              /\ Len(r1.argv) = Len(r2.argv)
              /\ \A k \in 1..Len(r1.argv) : k # 2 => r1.argv[k] = r2.argv[k] )
            => SameResult(r1, r2)

C3_Witness ==
    /\ pc = Exited
    /\ Len(history) = 1
    /\ history[1].argv = <<ProgName, <<"/", "tmp", "/", "a">>>>
    /\ argv = <<ProgName, <<"/", "tmp", "/", "b">>>>
    /\ stdout # <<>>
    /\ SameResult(history[1], ThisRun)

\* C4: a process started with two or more arguments writes the same text and
\* exits with the same status, 0, as a process started with the first of
\* these arguments alone.
C4_ExtraArgumentsIgnored ==
    \A i, j \in 1..Len(AllRuns) :
        LET r1 == AllRuns[i]
            r2 == AllRuns[j]
        IN  ( /\ Len(r1.argv) = 2
              /\ Len(r2.argv) > 2
              /\ SubSeq(r2.argv, 1, 2) = r1.argv )
            => /\ SameResult(r1, r2)
               /\ r2.exitStatus = 0

C4_Witness ==
    /\ pc = Exited
    /\ Len(history) = 1
    /\ Len(history[1].argv) = 2
    /\ Len(argv) > 2
    /\ SubSeq(argv, 1, 2) = history[1].argv
    /\ exitStatus = 0
    /\ SameResult(history[1], ThisRun)

\* C5: two processes started with the same argument list write the same text
\* and exit with the same status, whatever the time at which each runs and
\* whatever ran before.
C5_Repeatable ==
    \A i, j \in 1..Len(AllRuns) :
        AllRuns[i].argv = AllRuns[j].argv => SameResult(AllRuns[i], AllRuns[j])

C5_Witness ==
    /\ pc = Exited
    /\ Len(history) = 1
    /\ history[1].argv = argv
    /\ Len(argv) = 2
    /\ clock > 0
    /\ stdout # <<>>
    /\ SameResult(history[1], ThisRun)

\* C6: a generator returns the same text on every call, however many calls
\* of whichever generators came before, whatever the argument list and the
\* time, and a call of a generator changes no state of the process.
C6_GeneratorsPure ==
    [][ /\ \A fn \in Generators : Cardinality(returned'[fn]) <= 1
        /\ (calls' # calls =>
              UNCHANGED << argv, project_path, stdout, stderr, exitStatus,
                           effects, clock, history, pc >>) ]_vars

C6_Witness ==
    /\ pc = Imported
    /\ \A fn \in Generators : calls[fn] >= 2 /\ Cardinality(returned[fn]) = 1
    /\ clock > 0

\* C7: the text a generator returns is not empty; the schema text contains
\* notifications and adminNotificationPreferences, and the webhook text
\* contains checkout.session.completed.
C7_Markers ==
    \A fn \in Generators : \A text \in returned[fn] :
        /\ text # <<>>
        /\ fn = "generate_database_schema" =>
              /\ Contains(text, <<"notifications">>)
              /\ Contains(text, <<"adminNotificationPreferences">>)
        /\ fn = "generate_webhook_handler" =>
              Contains(text, <<"checkout", ".", "session", ".", "completed">>)

C7_Witness ==
    /\ pc = Imported
    /\ \A fn \in Generators : returned[fn] # {}
    /\ Contains(result, <<"adminNotificationPreferences">>)

\* C8: on the success path and on the usage path a process makes no system
\* call other than writes to standard output: nothing is read, written or
\* checked on disk, and nothing is written to standard error.
C8_OnlyStandardOutput ==
    /\ effects = {}
    /\ stderr = <<>>
    /\ \A i \in 1..Len(history) : history[i].stderr = <<>>

C8_Witness ==
    /\ pc = Exited
    /\ Len(history) = 1
    /\ history[1].exitStatus = 1
    /\ history[1].stdout # <<>>
    /\ exitStatus = 0
    /\ project_path = <<"/", "tmp", "/", "a">>
    /\ effects = {}

\* the text of one section: header, separator, template, empty line
Section(header, template) ==
    print(header) \o print(StrMul(<<"-">>, RuleWidth)) \o print(template)
    \o print(<<>>)

NextSteps ==
    print(next_steps_line) \o print(step1_line) \o print(step2_line)
    \o print(step3_line) \o print(step4_line)

SuccessOutput ==
    print(title_line) \o print(StrMul(<<"=">>, RuleWidth)) \o print(<<>>)
    \o print(snippets_line) \o print(<<>>)
    \o Section(header_types, generate_notification_types)
    \o Section(header_schema, generate_database_schema)
    \o Section(header_webhook, generate_webhook_handler)
    \o Section(header_helpers, generate_notification_helpers)
    \o print(StrMul(<<"=">>, RuleWidth)) \o print(complete_line)
    \o print(<<>>) \o NextSteps

\* C9: a process that exits with status 0 has written the opening banner,
\* then the four sections in order (header, separator, template), then the
\* closing banner, then the four next steps, and has called each generator
\* exactly once; and every process started with an argument terminates, the
\* last next step being the end of its output.
C9_FixedSequence ==
    /\ []((pc = Exited /\ exitStatus = 0) =>
            /\ stdout = SuccessOutput
            /\ calls = [fn \in Generators |-> 1])
    /\ ((pc = Entry /\ Len(argv) >= 2) ~>
            /\ pc = Exited
            /\ exitStatus = 0
            /\ OccursAt(stdout, print(step4_line),
                        Len(stdout) - Len(step4_line)))

C9_Witness ==
    /\ pc = Exited
    /\ exitStatus = 0
    /\ Len(argv) >= 2
    /\ calls = [fn \in Generators |-> 1]
    /\ InOrderFrom(stdout, <<header_types, generate_notification_types,
                             header_schema, generate_database_schema,
                             header_webhook, generate_webhook_handler,
                             header_helpers, generate_notification_helpers,
                             complete_line, next_steps_line>>, 1)

\* C10: a process started without a path argument writes nothing but the
\* usage line, calls no generator and exits with status 1; the completion
\* message is in the output of no process that exits with another status
\* than 0.
C10_UsageOnly ==
    /\ Len(argv) < 2 =>
          /\ calls = NoCalls
          /\ stdout \in { <<>>, print(usage_line) }
          /\ pc = Exited => (stdout = print(usage_line) /\ exitStatus = 1)
    /\ (pc = Exited /\ Contains(stdout, CompletionMessage)) => exitStatus = 0

C10_Witness ==
    /\ pc = Exited
    /\ Len(argv) < 2
    /\ stdout = print(usage_line)
    /\ calls = NoCalls
    /\ Len(history) = 1
    /\ Contains(history[1].stdout, CompletionMessage)
    /\ history[1].exitStatus = 0

TypeOK ==
    /\ argv \in ArgLists
    /\ pc \in StmtLines \cup {Returned, Imported, Exited}
    /\ exitStatus \in {Running, 0, 1}
    /\ clock \in 0..MaxClock
    /\ Len(history) < MaxRuns
====
